---- MODULE Spec2Model ----
(***************************************************************************)
(* Model of rag-service/main.py: the word-window chunker (chunk_text), the *)
(* ingestion handler (upload_pdf, with extract_text_from_pdf) and the      *)
(* query handler (ask_question).                                           *)
(*                                                                         *)
(* A string is a sequence of characters; a character is a natural number,  *)
(* 0 standing for a whitespace character and every other number for a      *)
(* non-whitespace character.                                               *)
(***************************************************************************)
EXTENDS Integers, Sequences, FiniteSets, TLC

VARIABLES
    ct_text,      \* chunk_text: argument text
    ct_size,      \* chunk_text: argument chunk_size
    ct_overlap,   \* chunk_text: argument overlap
    ct_result,    \* chunk_text: outcome of the call (NoCall before it)
    disk,         \* UPLOAD_DIR: file name -> content of the file
    collection,   \* the ChromaDB collection: sequence of stored entries
    nextId,       \* number of ids uuid4 has handed out
    uploads,      \* /upload requests: request -> locals of the handler
    asks,         \* /ask requests: request -> locals of the handler
    ollama        \* prompts posted to the Ollama backend, in order

chunkVars == <<ct_text, ct_size, ct_overlap, ct_result>>
ingestVars == <<disk, collection, nextId, uploads>>
askVars == <<asks, ollama>>
vars == <<ct_text, ct_size, ct_overlap, ct_result, disk, collection, nextId, uploads, asks, ollama>>

\* Requests are numbered in the order they arrive.
InOrder(requests, r) == \A p \in DOMAIN requests : p < r => requests[p].pc # "idle"

Min(a, b) == IF a < b THEN a ELSE b
Max(a, b) == IF a > b THEN a ELSE b

(***************************************************************************)
(* Strings                                                                 *)
(***************************************************************************)
SPACE == 0

\* str.split(): the maximal runs of non-whitespace characters, in order.
split(text) ==
    LET n == Len(text)
        idx == [i \in 1..n |-> i]
        starts == SelectSeq(idx, LAMBDA i : text[i] # SPACE /\ (i = 1 \/ text[i - 1] = SPACE))
        ends == SelectSeq(idx, LAMBDA i : text[i] # SPACE /\ (i = n \/ text[i + 1] = SPACE))
    IN  [k \in 1..Len(starts) |-> SubSeq(text, starts[k], ends[k])]

\* text.strip(): text without its leading and trailing whitespace.
strip(text) ==
    LET inked == SelectSeq([i \in 1..Len(text) |-> i], LAMBDA i : text[i] # SPACE)
    IN  IF inked = <<>> THEN <<>> ELSE SubSeq(text, inked[1], inked[Len(inked)])

RECURSIVE JoinRange(_, _, _)
JoinRange(ws, lo, hi) ==
    IF lo > hi THEN <<>>
    ELSE IF lo = hi THEN ws[lo]
    ELSE LET mid == (lo + hi) \div 2
         IN  JoinRange(ws, lo, mid) \o <<SPACE>> \o JoinRange(ws, mid + 1, hi)

\* ' '.join(ws): the words with one space between neighbours.
join(ws) == JoinRange(ws, 1, Len(ws))

\* s[a:b] for a list s (Python slice, negative indices counted from the end).
PySlice(s, a, b) ==
    LET n == Len(s)
        lo == IF a < 0 THEN Max(n + a, 0) ELSE Min(a, n)
        hi == IF b < 0 THEN Max(n + b, 0) ELSE Min(b, n)
    IN  SubSeq(s, lo + 1, hi)

\* range(start, stop, step) for step # 0, as the sequence of its values.
range(start, stop, step) ==
    LET len == IF step > 0
               THEN (IF stop > start THEN (stop - start + step - 1) \div step ELSE 0)
               ELSE (IF start > stop THEN (start - stop - step - 1) \div (0 - step) ELSE 0)
    IN  [k \in 1..len |-> start + (k - 1) * step]

(***************************************************************************)
(* chunk_text                                                              *)
(***************************************************************************)
CHUNK_SIZE == 500
OVERLAP == 50

\* Mutant: the last window is dropped when it is shorter than chunk_size.
RECURSIVE ChunkLoopFullOnly(_, _, _, _, _)
ChunkLoopFullOnly(words, offsets, k, chunk_size, chunks) ==
    IF k > Len(offsets) THEN chunks
    ELSE LET i == offsets[k]
             chunk == join(PySlice(words, i, i + chunk_size))
         IN  ChunkLoopFullOnly(words, offsets, k + 1, chunk_size,
                               IF i + chunk_size <= Len(words) THEN Append(chunks, chunk) ELSE chunks)

\* The body of the for loop, from the k-th value of the range on.
RECURSIVE ChunkLoop(_, _, _, _, _)
ChunkLoop(words, offsets, k, chunk_size, chunks) ==
    IF k > Len(offsets) THEN chunks
    ELSE LET i == offsets[k]
             chunk == join(PySlice(words, i, i + chunk_size))
         IN  ChunkLoop(words, offsets, k + 1, chunk_size,
                       IF chunk # <<>> THEN Append(chunks, chunk) ELSE chunks)

\* chunk_text(text, chunk_size, overlap): what the call raises ("" when it
\* returns) and the list it returns. range() raises ValueError for a step of 0.
chunk_text(text, chunk_size, overlap) ==
    LET words == split(text)
        step == chunk_size - overlap
    IN  IF step = 0
        THEN [raised |-> "ValueError", chunks |-> <<>>]
        ELSE [raised |-> "",
              chunks |-> ChunkLoop(words, range(0, Len(words), step), 1, chunk_size, <<>>)]

(***************************************************************************)
(* Calls of chunk_text on bounded arguments                                *)
(***************************************************************************)
MaxTextLen == 7
MaxChunkSize == 3
Chars == {SPACE, 1, 2}

TextsOfLen(n) == [1..n -> Chars]
Texts == UNION {TextsOfLen(n) : n \in 0..MaxTextLen}

NoCall == [raised |-> "not called", chunks |-> <<>>]

CallChunkText ==
    /\ ct_result = NoCall
    /\ ct_result' = chunk_text(ct_text, ct_size, ct_overlap)
    /\ UNCHANGED <<ct_text, ct_size, ct_overlap, ingestVars, askVars>>

(***************************************************************************)
(* Documents                                                               *)
(*                                                                         *)
(* A file name is a sequence of one-character strings.  The bytes of a PDF *)
(* are a sequence of blocks, one block per page; a block is readable (it   *)
(* holds the page's text) or not (pypdf raises on it).                     *)
(***************************************************************************)
A_PDF == <<"a", ".", "p", "d", "f">>
B_PDF == <<"b", ".", "p", "d", "f">>
N_TXT == <<"n", ".", "t", "x", "t">>
DOT_PDF == <<".", "p", "d", "f">>

\* name.endswith(suffix)
endswith(name, suffix) ==
    /\ Len(name) >= Len(suffix)
    /\ SubSeq(name, Len(name) - Len(suffix) + 1, Len(name)) = suffix

Page(text) == [readable |-> TRUE, text |-> text]
Unreadable == [readable |-> FALSE, text |-> <<>>]

\* n one-character words separated by single spaces.
Words(n) == [i \in 1..(2 * n - 1) |-> IF i % 2 = 1 THEN (i + 1) \div 2 ELSE SPACE]

TextLong == Words(600)
TextTen == Words(10)
TextShort == <<SPACE, SPACE, 7, 8, SPACE, SPACE, 9, SPACE>>
TextBlank == <<SPACE, SPACE>>

DocTwoPages == <<Page(TextLong), Page(TextTen)>>
DocShort == <<Page(TextShort)>>
DocImageOnly == <<Page(<<>>)>>
DocBlankFirst == <<Page(TextBlank), Page(TextTen)>>
DocCorrupt == <<Page(TextShort), Unreadable>>

\* The (file name, content) pairs a client uploads.
Uploadables ==
    { <<A_PDF, DocTwoPages>>, <<A_PDF, DocShort>>, <<A_PDF, DocBlankFirst>>,
      <<B_PDF, DocImageOnly>>, <<B_PDF, DocCorrupt>>, <<N_TXT, DocShort>> }

PdfNames == {A_PDF, B_PDF}

(***************************************************************************)
(* extract_text_from_pdf                                                   *)
(***************************************************************************)
\* Mutant: an unreadable page ends the loop and the pages read so far are kept.
RECURSIVE ExtractLoopKeepsRead(_, _, _, _)
ExtractLoopKeepsRead(pages, k, name, chunks) ==
    IF k > Len(pages) THEN [raised |-> "", chunks |-> chunks]
    ELSE IF ~pages[k].readable THEN [raised |-> "", chunks |-> chunks]
    ELSE ExtractLoopKeepsRead(pages, k + 1, name,
                     IF strip(pages[k].text) # <<>>
                     THEN Append(chunks, [text |-> pages[k].text, page |-> k, source |-> name])
                     ELSE chunks)

\* The loop over pdf_reader.pages from page k on; any exception inside the
\* try block is re-raised as HTTPException(400) and the chunks are lost.
RECURSIVE ExtractLoop(_, _, _, _)
ExtractLoop(pages, k, name, chunks) ==
    IF k > Len(pages) THEN [raised |-> "", chunks |-> chunks]
    ELSE IF ~pages[k].readable THEN [raised |-> "HTTPException", chunks |-> <<>>]
    ELSE ExtractLoop(pages, k + 1, name,
                     IF strip(pages[k].text) # <<>>
                     THEN Append(chunks, [text |-> pages[k].text, page |-> k, source |-> name])
                     ELSE chunks)

\* extract_text_from_pdf(pdf_path), given the bytes of the file at pdf_path.
extract_text_from_pdf(pages, name) == ExtractLoop(pages, 1, name, <<>>)

(***************************************************************************)
(* upload_pdf                                                              *)
(***************************************************************************)
MaxUploads == 2
UploadIds == 1..MaxUploads

IdleUpload ==
    [pc |-> "idle", filename |-> <<>>, content |-> <<>>, read |-> <<>>,
     status |-> 0, chunks_added |-> 0, ids |-> <<>>]

\* Mutant: the page number is the position among the non-blank pages.
RECURSIVE AllChunksPageByPosition(_, _)
AllChunksPageByPosition(page_chunks, k) ==
    IF k > Len(page_chunks) THEN <<>>
    ELSE LET text_chunks == chunk_text(page_chunks[k].text, CHUNK_SIZE, OVERLAP).chunks
         IN  [j \in 1..Len(text_chunks) |->
                 [text |-> text_chunks[j], page |-> k, source |-> page_chunks[k].source]]
             \o AllChunksPageByPosition(page_chunks, k + 1)

\* all_chunks: the chunks of the page chunks from the k-th on, each with the
\* page and source of its page chunk.
RECURSIVE AllChunks(_, _)
AllChunks(page_chunks, k) ==
    IF k > Len(page_chunks) THEN <<>>
    ELSE LET text_chunks == chunk_text(page_chunks[k].text, CHUNK_SIZE, OVERLAP).chunks
         IN  [j \in 1..Len(text_chunks) |->
                 [text |-> text_chunks[j], page |-> page_chunks[k].page,
                  source |-> page_chunks[k].source]]
             \o AllChunks(page_chunks, k + 1)

\* collection.add(embeddings, documents=texts, metadatas, ids): the entries
\* the batch adds. The embedding of an entry is a function of its document
\* and is not kept apart from it.
Entries(all_chunks, ids) ==
    [j \in 1..Len(all_chunks) |->
        [id |-> ids[j], document |-> all_chunks[j].text,
         metadata |-> [page |-> all_chunks[j].page, source |-> all_chunks[j].source]]]

\* f.write(content) on a file opened with 'wb' by this request: the bytes go
\* to offset 0 of whatever the file holds by now.
Written(r) ==
    LET old == disk[uploads[r].filename]
        content == uploads[r].content
    IN  content \o SubSeq(old, Len(content) + 1, Len(old))

\* The request arrives with a file name that does not end in '.pdf'.
UploadRejected(r, name, content) ==
    /\ uploads[r].pc = "idle"
    /\ InOrder(uploads, r)
    /\ ~endswith(name, DOT_PDF)
    /\ uploads' = [uploads EXCEPT ![r] =
           [@ EXCEPT !.pc = "done", !.filename = name, !.content = content, !.status = 400]]
    /\ UNCHANGED <<disk, collection, nextId, chunkVars, askVars>>

\* The request arrives, opens UPLOAD_DIR / filename with 'wb' (the file is
\* truncated) and awaits file.read().
UploadOpen(r, name, content) ==
    /\ uploads[r].pc = "idle"
    /\ InOrder(uploads, r)
    /\ endswith(name, DOT_PDF)
    /\ disk' = [disk EXCEPT ![name] = <<>>]
    /\ uploads' = [uploads EXCEPT ![r] =
           [@ EXCEPT !.pc = "reading", !.filename = name, !.content = content]]
    /\ UNCHANGED <<collection, nextId, chunkVars, askVars>>

\* file.read() returns and the handler runs to its end without another
\* await: it writes and closes the file, extracts the page chunks from the
\* file, chunks them, embeds the texts and adds the batch to the collection.
UploadResumes(r) ==
    /\ uploads[r].pc = "reading"
    /\ LET written == Written(r)
           page_chunks == extract_text_from_pdf(written, uploads[r].filename)
           all_chunks == AllChunks(page_chunks.chunks, 1)
           ids == [j \in 1..Len(all_chunks) |-> nextId + j]
       IN  /\ disk' = [disk EXCEPT ![uploads[r].filename] = written]
           /\ \/ \* extract_text_from_pdf raises HTTPException(400)
                 /\ page_chunks.raised # ""
                 /\ uploads' = [uploads EXCEPT ![r] =
                        [@ EXCEPT !.pc = "done", !.read = written, !.status = 400]]
                 /\ UNCHANGED <<collection, nextId>>
              \/ \* a batch of at least one chunk is added
                 /\ page_chunks.raised = ""
                 /\ all_chunks # <<>>
                 /\ nextId' = nextId + Len(all_chunks)
                 /\ collection' = collection \o Entries(all_chunks, ids)
                 /\ uploads' = [uploads EXCEPT ![r] =
                        [@ EXCEPT !.pc = "done", !.read = written, !.status = 200,
                                  !.chunks_added = Len(all_chunks), !.ids = ids]]
              \/ \* no chunk at all; encode([]) and collection.add of empty
                 \* lists go through
                 /\ page_chunks.raised = ""
                 /\ all_chunks = <<>>
                 /\ uploads' = [uploads EXCEPT ![r] =
                        [@ EXCEPT !.pc = "done", !.read = written, !.status = 200,
                                  !.chunks_added = Len(all_chunks)]]
                 /\ UNCHANGED <<collection, nextId>>
              \/ \* no chunk at all; the embedder or the collection raises on
                 \* the empty lists, and the handler catches nothing
                 /\ page_chunks.raised = ""
                 /\ all_chunks = <<>>
                 /\ uploads' = [uploads EXCEPT ![r] =
                        [@ EXCEPT !.pc = "done", !.read = written, !.status = 500]]
                 /\ UNCHANGED <<collection, nextId>>
    /\ UNCHANGED <<chunkVars, askVars>>

(***************************************************************************)
(* ask_question                                                            *)
(***************************************************************************)
MaxAsks == 2
MaxTopK == 2
MaxIndexedDocs == 2
AskIds == 1..MaxAsks

QUESTION == <<3, SPACE, 4>>
ANSWER == <<5, SPACE, 6>>

\* The locals of a request that has not arrived; reply records what the
\* backend answered once the await has ended.
IdleAsk ==
    [pc |-> "idle", top_k |-> 0, results |-> [documents |-> <<>>, metadatas |-> <<>>],
     context_parts |-> <<>>, citations |-> <<>>, status |-> 0, answer |-> <<>>,
     reply |-> "none"]

\* collection.query(query_embeddings=[e], n_results=n): the documents and
\* metadatas of the n nearest entries (all entries when there are fewer),
\* nearest first. Which entries are nearest is the index's own matter: every
\* ranking is possible.
Query(coll, n) ==
    LET k == Min(n, Len(coll))
        rankings == {f \in [1..k -> 1..Len(coll)] : \A i, j \in 1..k : f[i] = f[j] => i = j}
    IN  { [documents |-> [i \in 1..k |-> coll[f[i]].document],
           metadatas |-> [i \in 1..k |-> coll[f[i]].metadata]] : f \in rankings }

\* Mutant: the labels count from 0.
ContextPartsFromZero(results) ==
    [i \in 1..Min(Len(results.documents), Len(results.metadatas)) |->
        [label |-> i - 1, text |-> results.documents[i]]]

\* context_parts: "[Source {i+1}] {doc}" for the i-th (from 0) result, kept
\* as the number in the label and the text after it.
ContextParts(results) ==
    [i \in 1..Min(Len(results.documents), Len(results.metadatas)) |->
        [label |-> i, text |-> results.documents[i]]]

\* Mutant: results are listed best last.
CitationsReversed(results) ==
    LET n == Min(Len(results.documents), Len(results.metadatas))
    IN  [i \in 1..n |->
            [text |-> results.documents[n + 1 - i], page |-> results.metadatas[n + 1 - i].page,
             source |-> results.metadatas[n + 1 - i].source]]

\* citations: one per zipped (doc, metadata), in the order of the results.
Citations(results) ==
    [i \in 1..Min(Len(results.documents), Len(results.metadatas)) |->
        [text |-> results.documents[i], page |-> results.metadatas[i].page,
         source |-> results.metadatas[i].source]]

\* The prompt: the context parts joined by blank lines, then the question.
Prompt(context_parts, question) == [context |-> context_parts, question |-> question]

\* What the backend can do with a posted prompt.
NoBody == [json |-> FALSE, type |-> "none", fields |-> [error |-> <<>>]]
Replies ==
    { [kind |-> "timeout", code |-> 0, body |-> NoBody],
      [kind |-> "http", code |-> 500,
       body |-> [json |-> TRUE, type |-> "object", fields |-> [error |-> <<7>>]]],
      [kind |-> "http", code |-> 200, body |-> NoBody],
      [kind |-> "http", code |-> 200,
       body |-> [json |-> TRUE, type |-> "array", fields |-> [error |-> <<>>]]],
      [kind |-> "http", code |-> 200,
       body |-> [json |-> TRUE, type |-> "object", fields |-> [error |-> <<7>>]]],
      [kind |-> "http", code |-> 200,
       body |-> [json |-> TRUE, type |-> "object", fields |-> [response |-> ANSWER]]] }

\* Whether the try block raises on the reply: the post itself (timeout),
\* raise_for_status (4xx, 5xx), response.json() (body is no JSON) or
\* result.get (the JSON value is no object).
TryRaises(reply) ==
    \/ reply.kind = "timeout"
    \/ reply.code >= 400
    \/ ~reply.body.json
    \/ reply.body.type # "object"

\* result.get("response", "")
GetResponse(result) ==
    IF "response" \in DOMAIN result THEN result.response ELSE <<>>

\* The request arrives and the query returns no document: 404.
AskNoDocuments(q, top_k) ==
    /\ asks[q].pc = "idle"
    /\ InOrder(asks, q)
    /\ \E results \in Query(collection, top_k) :
          /\ results.documents = <<>>
          /\ asks' = [asks EXCEPT ![q] =
                 [@ EXCEPT !.pc = "done", !.top_k = top_k, !.results = results,
                           !.status = 404]]
    /\ UNCHANGED <<ollama, chunkVars, ingestVars>>

\* The request arrives, the query returns documents, the handler builds the
\* context and the citations, posts the prompt and awaits the reply.
AskPosts(q, top_k) ==
    /\ asks[q].pc = "idle"
    /\ InOrder(asks, q)
    /\ \E results \in Query(collection, top_k) :
          /\ results.documents # <<>>
          /\ asks' = [asks EXCEPT ![q] =
                 [@ EXCEPT !.pc = "awaiting", !.top_k = top_k, !.results = results,
                           !.context_parts = ContextParts(results),
                           !.citations = Citations(results)]]
          /\ ollama' = ollama \cup {[request |-> q,
                                     prompt |-> Prompt(ContextParts(results), QUESTION)]}
    /\ UNCHANGED <<chunkVars, ingestVars>>

\* The await ends with an exception inside the try block: 500.
AskReplyRaises(q, reply) ==
    /\ asks[q].pc = "awaiting"
    /\ TryRaises(reply)
    /\ asks' = [asks EXCEPT ![q] = [@ EXCEPT !.pc = "done", !.status = 500,
                                              !.reply = reply.kind]]
    /\ UNCHANGED <<ollama, chunkVars, ingestVars>>

\* The await ends with a JSON object: the handler returns the answer and
\* the citations.
AskReplyAnswers(q, reply) ==
    /\ asks[q].pc = "awaiting"
    /\ ~TryRaises(reply)
    /\ asks' = [asks EXCEPT ![q] =
           [@ EXCEPT !.pc = "done", !.status = 200,
                     !.answer = GetResponse(reply.body.fields),
                     !.reply = IF "response" \in DOMAIN reply.body.fields
                               THEN "answer" ELSE "no response field"]]
    /\ UNCHANGED <<ollama, chunkVars, ingestVars>>

(***************************************************************************)
(* Specifications                                                          *)
(***************************************************************************)
\* The service before any request.
InitService ==
    /\ disk = [n \in PdfNames |-> <<>>]
    /\ collection = <<>>
    /\ nextId = 0
    /\ uploads = [r \in UploadIds |-> IdleUpload]
    /\ asks = [q \in AskIds |-> IdleAsk]
    /\ ollama = {}

InitNoChunkCall ==
    /\ ct_text = <<>>
    /\ ct_size = CHUNK_SIZE
    /\ ct_overlap = OVERLAP
    /\ ct_result = NoCall

\* Uploads, concurrent at the await of upload_pdf.
Init == InitService /\ InitNoChunkCall

Next ==
    \/ \E r \in UploadIds, u \in Uploadables : UploadRejected(r, u[1], u[2])
    \/ \E r \in UploadIds, u \in Uploadables : UploadOpen(r, u[1], u[2])
    \/ \E r \in UploadIds : UploadResumes(r)

Spec == Init /\ [][Next]_vars

\* chunk_text called once on any text and any sizes within the bounds.
InitChunk ==
    /\ InitService
    /\ ct_text \in Texts
    /\ ct_size \in 0..MaxChunkSize
    /\ ct_overlap \in 0..MaxChunkSize
    /\ ct_result = NoCall

NextChunk == CallChunkText

SpecChunk == InitChunk /\ [][NextChunk]_vars

\* The index as completed uploads of the documents ds, one after the
\* other, leave it.
RECURSIVE IndexAfter(_, _)
IndexAfter(ds, coll) ==
    IF ds = <<>> THEN coll
    ELSE LET all_chunks == AllChunks(extract_text_from_pdf(ds[1][2], ds[1][1]).chunks, 1)
             ids == [j \in 1..Len(all_chunks) |-> Len(coll) + j]
         IN  IndexAfter(Tail(ds), coll \o Entries(all_chunks, ids))

Indexables == { <<A_PDF, DocShort>>, <<B_PDF, DocBlankFirst>> }

\* Questions, concurrent at the await of ask_question, over an index that
\* earlier uploads filled.
InitAsk ==
    /\ InitNoChunkCall
    /\ \E n \in 0..MaxIndexedDocs : \E ds \in [1..n -> Indexables] :
          /\ collection = IndexAfter(ds, <<>>)
          /\ nextId = Len(collection)
          /\ disk = [f \in PdfNames |->
                        IF \E i \in 1..n : ds[i][1] = f
                        THEN ds[CHOOSE i \in 1..n : ds[i][1] = f /\ \A j \in 1..n : ds[j][1] = f => j <= i][2]
                        ELSE <<>>]
    /\ uploads = [r \in UploadIds |-> IdleUpload]
    /\ asks = [q \in AskIds |-> IdleAsk]
    /\ ollama = {}

NextAsk ==
    \/ \E q \in AskIds, k \in 1..MaxTopK : AskNoDocuments(q, k)
    \/ \E q \in AskIds, k \in 1..MaxTopK : AskPosts(q, k)
    \/ \E q \in AskIds, reply \in Replies : AskReplyRaises(q, reply)
    \/ \E q \in AskIds, reply \in Replies : AskReplyAnswers(q, reply)

SpecAsk == InitAsk /\ [][NextAsk]_vars

(***************************************************************************)
(* Properties of chunk_text (under SpecChunk)                              *)
(***************************************************************************)
ChunkReturned == ct_result # NoCall /\ ct_result.raised = ""
ValidSizes == 0 <= ct_overlap /\ ct_overlap < ct_size

\* C1: for valid sizes and a text of more than chunk_size words, every two
\* consecutive chunks share exactly `overlap` words: the last `overlap` words
\* of a chunk are the first `overlap` words of the next, the final partial
\* window included.
C1_ConsecutiveChunksShareOverlap ==
    (ChunkReturned /\ ValidSizes /\ Len(split(ct_text)) > ct_size) =>
        \A j \in 1..(Len(ct_result.chunks) - 1) :
            LET a == split(ct_result.chunks[j])
                b == split(ct_result.chunks[j + 1])
            IN  /\ Len(a) >= ct_overlap
                /\ Len(b) >= ct_overlap
                /\ SubSeq(a, Len(a) - ct_overlap + 1, Len(a)) = SubSeq(b, 1, ct_overlap)

\* C2: a call with chunk_size <= overlap fails with an error for every text;
\* it returns no list, empty or not.
C2_NonPositiveStepRejected ==
    (ct_result # NoCall /\ ct_size <= ct_overlap) => ct_result.raised # ""

\* C5: for valid sizes the chunks are the windows of chunk_size words that
\* start at the word offsets 0, step, 2*step, ... below the number of words,
\* in that order and clipped at the end of the text (the last one is kept
\* when it is shorter), so every word of the text lies in some chunk.
C5_WindowsCoverEveryWord ==
    (ct_result # NoCall /\ ValidSizes) =>
        LET words == split(ct_text)
            W == Len(words)
            step == ct_size - ct_overlap
            chunks == ct_result.chunks
            n == Len(chunks)
        IN  /\ ct_result.raised = ""
            /\ \A j \in 1..n : (j - 1) * step < W
            /\ \A j \in 1..n :
                  chunks[j] = join(SubSeq(words, (j - 1) * step + 1,
                                          Min((j - 1) * step + ct_size, W)))
            /\ \A p \in 1..W : \E j \in 1..n :
                  (j - 1) * step < p /\ p <= (j - 1) * step + ct_size
            /\ W > 0 => (n >= 1 /\ (n - 1) * step + ct_size >= W)

\* A call with valid sizes whose last chunk is a partial window, on a text
\* that split and join do not reproduce.
C5_Witness ==
    /\ ChunkReturned /\ ValidSizes
    /\ ct_overlap > 0
    /\ Len(ct_result.chunks) >= 2
    /\ Len(split(ct_result.chunks[Len(ct_result.chunks)])) < ct_size
    /\ join(split(ct_text)) # ct_text
    /\ \E i \in 1..Len(split(ct_text)) : Len(split(ct_text)[i]) > 1

(***************************************************************************)
(* Properties of upload_pdf (under Spec)                                   *)
(***************************************************************************)
Done(r) == uploads[r].pc = "done"
Supported(r) == endswith(uploads[r].filename, DOT_PDF)
HasUnreadablePage(pages) == \E p \in 1..Len(pages) : ~pages[p].readable
NonBlankPages(pages) == {p \in 1..Len(pages) : strip(pages[p].text) # <<>>}

\* C4: an upload of a supported document that extracts to zero chunks ends
\* successfully with chunks_added = 0.
C4_ZeroChunksIsSuccess ==
    \A r \in UploadIds :
        (Done(r) /\ Supported(r) /\ ~HasUnreadablePage(uploads[r].read)
                 /\ NonBlankPages(uploads[r].read) = {}) =>
            (uploads[r].status = 200 /\ uploads[r].chunks_added = 0)

\* The entries of the collection that request r added.
EntriesOf(r) ==
    SelectSeq(collection,
              LAMBDA e : \E j \in 1..Len(uploads[r].ids) : uploads[r].ids[j] = e.id)

\* C6: a successful upload whose file has non-blank pages P, page p being
\* cut by the chunker into Cp chunks, returns chunks_added = the sum of the Cp
\* and has added exactly that many entries, Cp of them for each page p, each
\* with the number of its page, the name of the file and a chunk of that page
\* as its document; every entry of the collection was added by exactly one
\* successful upload, so each upload grows the collection by its chunks_added.
C6_ChunksAddedIsSumOverPages ==
    /\ \A r \in UploadIds :
          (Done(r) /\ uploads[r].status = 200) =>
              LET pages == uploads[r].read
                  mine == EntriesOf(r)
              IN  /\ uploads[r].chunks_added = Len(mine)
                  /\ Len(uploads[r].ids) = Len(mine)
                  /\ \A p \in 1..Len(pages) :
                        LET cut == IF p \in NonBlankPages(pages)
                                   THEN chunk_text(pages[p].text, CHUNK_SIZE, OVERLAP).chunks
                                   ELSE <<>>
                            ofPage == SelectSeq(mine, LAMBDA e : e.metadata.page = p)
                        IN  /\ Len(ofPage) = Len(cut)
                            /\ \A j \in 1..Len(ofPage) :
                                  /\ ofPage[j].document = cut[j]
                                  /\ ofPage[j].metadata.source = uploads[r].filename
                  /\ \A i \in 1..Len(mine) : mine[i].metadata.page \in 1..Len(pages)
    /\ \A i \in 1..Len(collection) :
          /\ \E r \in UploadIds :
                /\ Done(r) /\ uploads[r].status = 200
                /\ \E j \in 1..Len(uploads[r].ids) : uploads[r].ids[j] = collection[i].id
          /\ \A k \in 1..Len(collection) : collection[k].id = collection[i].id => k = i
    /\ \A r1, r2 \in UploadIds :
          r1 # r2 => \A j1 \in 1..Len(uploads[r1].ids), j2 \in 1..Len(uploads[r2].ids) :
                        uploads[r1].ids[j1] # uploads[r2].ids[j2]

\* The document of 600 and 10 words was uploaded twice, and each upload read
\* its own bytes and added 3 chunks.
C6_Witness ==
    \E r1, r2 \in UploadIds :
          /\ r1 # r2
          /\ Done(r1) /\ uploads[r1].status = 200 /\ uploads[r1].read = DocTwoPages
          /\ Done(r2) /\ uploads[r2].status = 200 /\ uploads[r2].read = DocTwoPages
          /\ uploads[r1].chunks_added = 3 /\ uploads[r2].chunks_added = 3
          /\ Len(collection) = 6

\* C8: an upload that fails because its file name is not supported or because
\* the extractor fails on a page of the file ends with status 400 and leaves
\* the collection as it was: no entry of that upload is added, and no entry
\* is removed or changed.
C8_FailedIngestLeavesIndex ==
    [][\A r \in UploadIds :
          (~Done(r) /\ uploads'[r].pc = "done") =>
              /\ (~endswith(uploads'[r].filename, DOT_PDF)
                      \/ HasUnreadablePage(uploads'[r].read)) => uploads'[r].status = 400
              /\ uploads'[r].status = 400 =>
                    (collection' = collection /\ uploads'[r].ids = <<>>)]_vars

\* An upload failed on an unreadable page that follows a readable page, and
\* another was rejected for its name, while the collection held entries.
C8_Witness ==
    /\ collection # <<>>
    /\ \E r \in UploadIds :
          /\ Done(r) /\ uploads[r].status = 400
          /\ HasUnreadablePage(uploads[r].read)
          /\ NonBlankPages(uploads[r].read) # {}

\* C10: whatever the interleaving of the uploads at the await, the bytes a
\* request extracts from its file are the bytes uploaded in that request.
C10_EachUploadReadsItsOwnBytes ==
    \A r \in UploadIds :
        (Done(r) /\ Supported(r)) => uploads[r].read = uploads[r].content

(***************************************************************************)
(* Properties of ask_question (under SpecAsk)                              *)
(***************************************************************************)
\* C3: a question ends successfully only when the backend replied with a
\* success status and a JSON object that has a `response` field; every other
\* reply ends it with an error.
C3_BackendFailureIsError ==
    \A q \in AskIds :
        (asks[q].pc = "done" /\ asks[q].status = 200) => asks[q].reply = "answer"

\* C7: a question with top_k = k over a collection of at least k entries has
\* exactly k citations, the N-th being the text, page and source of the N-th
\* result of the query; a question over the empty collection ends with 404
\* and no prompt is posted for it.
C7_CitationsFollowTheIndex ==
    \A q \in AskIds :
        asks[q].pc # "idle" =>
            /\ (Len(collection) >= asks[q].top_k) =>
                  /\ asks[q].status # 404
                  /\ Len(asks[q].citations) = asks[q].top_k
                  /\ \A N \in 1..asks[q].top_k :
                        /\ asks[q].citations[N].text = asks[q].results.documents[N]
                        /\ asks[q].citations[N].page = asks[q].results.metadatas[N].page
                        /\ asks[q].citations[N].source = asks[q].results.metadatas[N].source
            /\ (Len(collection) = 0) =>
                  /\ asks[q].pc = "done" /\ asks[q].status = 404
                  /\ \A call \in ollama : call.request # q

\* A question with top_k = 2 was answered with two citations of different
\* sources.
C7_Witness ==
    \E q \in AskIds :
          /\ asks[q].pc = "done" /\ asks[q].status = 200 /\ asks[q].top_k = 2
          /\ Len(asks[q].citations) = 2
          /\ asks[q].citations[1].source # asks[q].citations[2].source

\* C9: in a successful question the prompt that was posted has one labelled
\* part per citation, the N-th part carries the label N and the text of the
\* N-th citation.
C9_SourceLabelsMatchCitations ==
    \A q \in AskIds :
        (asks[q].pc = "done" /\ asks[q].status = 200) =>
            /\ \E call \in ollama : call.request = q
            /\ \A call \in ollama :
                  call.request = q =>
                      /\ Len(call.prompt.context) = Len(asks[q].citations)
                      /\ \A N \in 1..Len(asks[q].citations) :
                            /\ call.prompt.context[N].label = N
                            /\ call.prompt.context[N].text = asks[q].citations[N].text

\* A successful question with two citations of different texts.
C9_Witness ==
    \E q \in AskIds :
        /\ asks[q].pc = "done" /\ asks[q].status = 200
        /\ Len(asks[q].citations) = 2
        /\ asks[q].citations[1].text # asks[q].citations[2].text

====
